---- MODULE Spec2Model ----
(***************************************************************************)
(* flower-pot: a catalogue of ANSI SGR escape sequences (named string      *)
(* constants) and four functions that format the parameterised palette    *)
(* and truecolor sequences (src/src/lib.rs).                              *)
(*                                                                         *)
(* A string is the sequence of its bytes.  A call of one of the four       *)
(* functions is modelled at the grain of format!: a fresh String is        *)
(* allocated, the pieces of the format string and the rendered arguments   *)
(* are appended to it one after the other, and the String is returned.     *)
(* Several callers may be inside a call at once.                           *)
(***************************************************************************)
EXTENDS Integers, Sequences, FiniteSets, TLC

\* ------------------------------------------------------------- bytes

\* '\x1b'
ESC == 27
\* '['
LBRACKET == 91
\* ';'
SEMI == 59
\* 'm'
LOWER_M == 109
\* '0'
ZERO == 48
\* the largest value of the argument type u8
U8_MAX == 255

\* the byte of the decimal digit d
D(d) == ZERO + d

U8 == 0..U8_MAX

\* ------------------------------------------------- the named constants

\* lib.rs:58  "\x1b[0m"
RESET == <<ESC, LBRACKET, D(0), LOWER_M>>
\* lib.rs:60  "\x1b[1m"
BOLD == <<ESC, LBRACKET, D(1), LOWER_M>>
\* lib.rs:62  "\x1b[2m"
DIM == <<ESC, LBRACKET, D(2), LOWER_M>>
\* lib.rs:64  "\x1b[3m"
ITALIC == <<ESC, LBRACKET, D(3), LOWER_M>>
\* lib.rs:66  "\x1b[4m"
UNDERLINE == <<ESC, LBRACKET, D(4), LOWER_M>>
\* lib.rs:68  "\x1b[5m"
SLOW_BLINK == <<ESC, LBRACKET, D(5), LOWER_M>>
\* lib.rs:70  "\x1b[6m"
RAPID_BLINK == <<ESC, LBRACKET, D(6), LOWER_M>>
\* lib.rs:72  "\x1b[7m"
INVERTED == <<ESC, LBRACKET, D(7), LOWER_M>>
\* lib.rs:74  "\x1b[8m"
HIDDEN == <<ESC, LBRACKET, D(8), LOWER_M>>
\* lib.rs:76  "\x1b[9m"
STRIKETHROUGH == <<ESC, LBRACKET, D(9), LOWER_M>>
\* lib.rs:78  "\x1b[10m"
DEFAULT_FONT == <<ESC, LBRACKET, D(1), D(0), LOWER_M>>
\* lib.rs:80  "\x1b[11m"
ALT_FONT_1 == <<ESC, LBRACKET, D(1), D(1), LOWER_M>>
\* lib.rs:82  "\x1b[12m"
ALT_FONT_2 == <<ESC, LBRACKET, D(1), D(2), LOWER_M>>
\* lib.rs:84  "\x1b[13m"
ALT_FONT_3 == <<ESC, LBRACKET, D(1), D(3), LOWER_M>>
\* lib.rs:86  "\x1b[14m"
ALT_FONT_4 == <<ESC, LBRACKET, D(1), D(4), LOWER_M>>
\* lib.rs:88  "\x1b[15m"
ALT_FONT_5 == <<ESC, LBRACKET, D(1), D(5), LOWER_M>>
\* lib.rs:90  "\x1b[16m"
ALT_FONT_6 == <<ESC, LBRACKET, D(1), D(6), LOWER_M>>
\* lib.rs:92  "\x1b[17m"
ALT_FONT_7 == <<ESC, LBRACKET, D(1), D(7), LOWER_M>>
\* lib.rs:94  "\x1b[18m"
ALT_FONT_8 == <<ESC, LBRACKET, D(1), D(8), LOWER_M>>
\* lib.rs:96  "\x1b[19m"
ALT_FONT_9 == <<ESC, LBRACKET, D(1), D(9), LOWER_M>>
\* Mutant of FRAKTUR: the literal without its final 'm'.
FRAKTUR_unterminated == <<ESC, LBRACKET, D(2), D(0)>>
\* lib.rs:98  "\x1b[20m"
FRAKTUR == <<ESC, LBRACKET, D(2), D(0), LOWER_M>>
\* lib.rs:103  "\x1b[21m"
DOUBLE_UNDERLINE == <<ESC, LBRACKET, D(2), D(1), LOWER_M>>
\* lib.rs:108  "\x1b[21m"
NOT_BOLD == <<ESC, LBRACKET, D(2), D(1), LOWER_M>>
\* lib.rs:110  "\x1b[22m"
NORMAL_INTENSITY == <<ESC, LBRACKET, D(2), D(2), LOWER_M>>
\* lib.rs:112  "\x1b[23m"
NEITHER_BOLD_NOR_ITALIC == <<ESC, LBRACKET, D(2), D(3), LOWER_M>>
\* Mutant of NOT_UNDERLINED: the literal of the line above it, copied.
NOT_UNDERLINED_copied == <<ESC, LBRACKET, D(2), D(3), LOWER_M>>
\* lib.rs:114  "\x1b[24m"
NOT_UNDERLINED == <<ESC, LBRACKET, D(2), D(4), LOWER_M>>
\* lib.rs:116  "\x1b[25m"
NOT_BLINKING == <<ESC, LBRACKET, D(2), D(5), LOWER_M>>
\* lib.rs:119  "\x1b[26m"
PROPORTIONAL_SPACING == <<ESC, LBRACKET, D(2), D(6), LOWER_M>>
\* lib.rs:121  "\x1b[27m"
NOT_INVERTED == <<ESC, LBRACKET, D(2), D(7), LOWER_M>>
\* lib.rs:123  "\x1b[28m"
NOT_HIDDEN == <<ESC, LBRACKET, D(2), D(8), LOWER_M>>
\* lib.rs:125  "\x1b[29m"
NOT_STRIKETHROUGH == <<ESC, LBRACKET, D(2), D(9), LOWER_M>>
\* lib.rs:128  "\x1b[30m"
BLACK == <<ESC, LBRACKET, D(3), D(0), LOWER_M>>
\* lib.rs:130  "\x1b[31m"
RED == <<ESC, LBRACKET, D(3), D(1), LOWER_M>>
\* lib.rs:132  "\x1b[32m"
GREEN == <<ESC, LBRACKET, D(3), D(2), LOWER_M>>
\* lib.rs:134  "\x1b[33m"
YELLOW == <<ESC, LBRACKET, D(3), D(3), LOWER_M>>
\* lib.rs:136  "\x1b[34m"
BLUE == <<ESC, LBRACKET, D(3), D(4), LOWER_M>>
\* lib.rs:138  "\x1b[35m"
MAGENTA == <<ESC, LBRACKET, D(3), D(5), LOWER_M>>
\* lib.rs:140  "\x1b[36m"
CYAN == <<ESC, LBRACKET, D(3), D(6), LOWER_M>>
\* lib.rs:142  "\x1b[37m"
WHITE == <<ESC, LBRACKET, D(3), D(7), LOWER_M>>
\* lib.rs:157  "\x1b[39m"
DEFAULT == <<ESC, LBRACKET, D(3), D(9), LOWER_M>>
\* lib.rs:160  "\x1b[40m"
BLACK_BG == <<ESC, LBRACKET, D(4), D(0), LOWER_M>>
\* lib.rs:162  "\x1b[41m"
RED_BG == <<ESC, LBRACKET, D(4), D(1), LOWER_M>>
\* lib.rs:164  "\x1b[42m"
GREEN_BG == <<ESC, LBRACKET, D(4), D(2), LOWER_M>>
\* lib.rs:166  "\x1b[43m"
YELLOW_BG == <<ESC, LBRACKET, D(4), D(3), LOWER_M>>
\* lib.rs:168  "\x1b[44m"
BLUE_BG == <<ESC, LBRACKET, D(4), D(4), LOWER_M>>
\* Mutant of MAGENTA_BG: numbered as cyan.
MAGENTA_BG_as_cyan == <<ESC, LBRACKET, D(4), D(6), LOWER_M>>
\* lib.rs:170  "\x1b[45m"
MAGENTA_BG == <<ESC, LBRACKET, D(4), D(5), LOWER_M>>
\* lib.rs:172  "\x1b[46m"
CYAN_BG == <<ESC, LBRACKET, D(4), D(6), LOWER_M>>
\* lib.rs:174  "\x1b[47m"
WHITE_BG == <<ESC, LBRACKET, D(4), D(7), LOWER_M>>
\* lib.rs:189  "\x1b[49m"
DEFAULT_BG == <<ESC, LBRACKET, D(4), D(9), LOWER_M>>
\* lib.rs:193  "\x1b[50m"
NO_PROPORTIONAL_SPACING == <<ESC, LBRACKET, D(5), D(0), LOWER_M>>
\* lib.rs:195  "\x1b[51m"
FRAMED == <<ESC, LBRACKET, D(5), D(1), LOWER_M>>
\* lib.rs:197  "\x1b[52m"
ENCIRCLED == <<ESC, LBRACKET, D(5), D(2), LOWER_M>>
\* lib.rs:199  "\x1b[53m"
OVERLINE == <<ESC, LBRACKET, D(5), D(3), LOWER_M>>
\* lib.rs:202  "\x1b[54m"
NEITHER_FRAMED_NOR_ENCIRCLED == <<ESC, LBRACKET, D(5), D(4), LOWER_M>>
\* lib.rs:204  "\x1b[55m"
NOT_OVERLINED == <<ESC, LBRACKET, D(5), D(5), LOWER_M>>
\* lib.rs:207  "\x1b[90m"
BRIGHT_BLACK == <<ESC, LBRACKET, D(9), D(0), LOWER_M>>
\* lib.rs:209  "\x1b[91m"
BRIGHT_RED == <<ESC, LBRACKET, D(9), D(1), LOWER_M>>
\* lib.rs:211  "\x1b[92m"
BRIGHT_GREEN == <<ESC, LBRACKET, D(9), D(2), LOWER_M>>
\* lib.rs:213  "\x1b[93m"
BRIGHT_YELLOW == <<ESC, LBRACKET, D(9), D(3), LOWER_M>>
\* lib.rs:215  "\x1b[94m"
BRIGHT_BLUE == <<ESC, LBRACKET, D(9), D(4), LOWER_M>>
\* lib.rs:217  "\x1b[95m"
BRIGHT_MAGENTA == <<ESC, LBRACKET, D(9), D(5), LOWER_M>>
\* lib.rs:219  "\x1b[96m"
BRIGHT_CYAN == <<ESC, LBRACKET, D(9), D(6), LOWER_M>>
\* lib.rs:221  "\x1b[97m"
BRIGHT_WHITE == <<ESC, LBRACKET, D(9), D(7), LOWER_M>>
\* lib.rs:224  "\x1b[100m"
BRIGHT_BLACK_BG == <<ESC, LBRACKET, D(1), D(0), D(0), LOWER_M>>
\* lib.rs:226  "\x1b[101m"
BRIGHT_RED_BG == <<ESC, LBRACKET, D(1), D(0), D(1), LOWER_M>>
\* lib.rs:228  "\x1b[102m"
BRIGHT_GREEN_BG == <<ESC, LBRACKET, D(1), D(0), D(2), LOWER_M>>
\* lib.rs:230  "\x1b[103m"
BRIGHT_YELLOW_BG == <<ESC, LBRACKET, D(1), D(0), D(3), LOWER_M>>
\* lib.rs:232  "\x1b[104m"
BRIGHT_BLUE_BG == <<ESC, LBRACKET, D(1), D(0), D(4), LOWER_M>>
\* lib.rs:234  "\x1b[105m"
BRIGHT_MAGENTA_BG == <<ESC, LBRACKET, D(1), D(0), D(5), LOWER_M>>
\* lib.rs:236  "\x1b[106m"
BRIGHT_CYAN_BG == <<ESC, LBRACKET, D(1), D(0), D(6), LOWER_M>>
\* lib.rs:238  "\x1b[107m"
BRIGHT_WHITE_BG == <<ESC, LBRACKET, D(1), D(0), D(7), LOWER_M>>

\* the constants as they lie in the program's read-only data, by name
ConstTable ==
  [ RESET |-> RESET,
    BOLD |-> BOLD,
    DIM |-> DIM,
    ITALIC |-> ITALIC,
    UNDERLINE |-> UNDERLINE,
    SLOW_BLINK |-> SLOW_BLINK,
    RAPID_BLINK |-> RAPID_BLINK,
    INVERTED |-> INVERTED,
    HIDDEN |-> HIDDEN,
    STRIKETHROUGH |-> STRIKETHROUGH,
    DEFAULT_FONT |-> DEFAULT_FONT,
    ALT_FONT_1 |-> ALT_FONT_1,
    ALT_FONT_2 |-> ALT_FONT_2,
    ALT_FONT_3 |-> ALT_FONT_3,
    ALT_FONT_4 |-> ALT_FONT_4,
    ALT_FONT_5 |-> ALT_FONT_5,
    ALT_FONT_6 |-> ALT_FONT_6,
    ALT_FONT_7 |-> ALT_FONT_7,
    ALT_FONT_8 |-> ALT_FONT_8,
    ALT_FONT_9 |-> ALT_FONT_9,
    FRAKTUR |-> FRAKTUR,
    DOUBLE_UNDERLINE |-> DOUBLE_UNDERLINE,
    NOT_BOLD |-> NOT_BOLD,
    NORMAL_INTENSITY |-> NORMAL_INTENSITY,
    NEITHER_BOLD_NOR_ITALIC |-> NEITHER_BOLD_NOR_ITALIC,
    NOT_UNDERLINED |-> NOT_UNDERLINED,
    NOT_BLINKING |-> NOT_BLINKING,
    PROPORTIONAL_SPACING |-> PROPORTIONAL_SPACING,
    NOT_INVERTED |-> NOT_INVERTED,
    NOT_HIDDEN |-> NOT_HIDDEN,
    NOT_STRIKETHROUGH |-> NOT_STRIKETHROUGH,
    BLACK |-> BLACK,
    RED |-> RED,
    GREEN |-> GREEN,
    YELLOW |-> YELLOW,
    BLUE |-> BLUE,
    MAGENTA |-> MAGENTA,
    CYAN |-> CYAN,
    WHITE |-> WHITE,
    DEFAULT |-> DEFAULT,
    BLACK_BG |-> BLACK_BG,
    RED_BG |-> RED_BG,
    GREEN_BG |-> GREEN_BG,
    YELLOW_BG |-> YELLOW_BG,
    BLUE_BG |-> BLUE_BG,
    MAGENTA_BG |-> MAGENTA_BG,
    CYAN_BG |-> CYAN_BG,
    WHITE_BG |-> WHITE_BG,
    DEFAULT_BG |-> DEFAULT_BG,
    NO_PROPORTIONAL_SPACING |-> NO_PROPORTIONAL_SPACING,
    FRAMED |-> FRAMED,
    ENCIRCLED |-> ENCIRCLED,
    OVERLINE |-> OVERLINE,
    NEITHER_FRAMED_NOR_ENCIRCLED |-> NEITHER_FRAMED_NOR_ENCIRCLED,
    NOT_OVERLINED |-> NOT_OVERLINED,
    BRIGHT_BLACK |-> BRIGHT_BLACK,
    BRIGHT_RED |-> BRIGHT_RED,
    BRIGHT_GREEN |-> BRIGHT_GREEN,
    BRIGHT_YELLOW |-> BRIGHT_YELLOW,
    BRIGHT_BLUE |-> BRIGHT_BLUE,
    BRIGHT_MAGENTA |-> BRIGHT_MAGENTA,
    BRIGHT_CYAN |-> BRIGHT_CYAN,
    BRIGHT_WHITE |-> BRIGHT_WHITE,
    BRIGHT_BLACK_BG |-> BRIGHT_BLACK_BG,
    BRIGHT_RED_BG |-> BRIGHT_RED_BG,
    BRIGHT_GREEN_BG |-> BRIGHT_GREEN_BG,
    BRIGHT_YELLOW_BG |-> BRIGHT_YELLOW_BG,
    BRIGHT_BLUE_BG |-> BRIGHT_BLUE_BG,
    BRIGHT_MAGENTA_BG |-> BRIGHT_MAGENTA_BG,
    BRIGHT_CYAN_BG |-> BRIGHT_CYAN_BG,
    BRIGHT_WHITE_BG |-> BRIGHT_WHITE_BG ]

ConstNames == DOMAIN ConstTable

\* ------------------------------------------------------- the formatter

\* The decimal rendering of a u8 that "{n}" in format! asks for (Display for
\* u8): the digits of n, most significant first, computed by repeated
\* division by ten; a single digit for n < 10.
\* Mutant of Dec: every value padded to three digits, as "{n:03}" would.
DecPadded(n) == <<D(n \div 100), D((n \div 10) % 10), D(n % 10)>>

\* Mutant of Dec: the division loop without the case of zero, which renders 0
\* as no digit at all.
RECURSIVE DecLoop(_)
DecLoop(n) == IF n = 0 THEN <<>> ELSE DecLoop(n \div 10) \o <<D(n % 10)>>

RECURSIVE Dec(_)
Dec(n) == IF n < 10 THEN <<D(n)>> ELSE Dec(n \div 10) \o <<D(n % 10)>>

\* format_args!("\x1b[38;5;{n}m"): the literal pieces and the rendered
\* argument, in the order format! appends them.
fmt_color_256(n) ==
  << <<ESC, LBRACKET, D(3), D(8), SEMI, D(5), SEMI>>, Dec(n), <<LOWER_M>> >>

\* Mutant of fmt_truecolor: the components in the order b, g, r.
fmt_truecolor_bgr(r, g, b) ==
  << <<ESC, LBRACKET, D(3), D(8), SEMI, D(2), SEMI>>, Dec(b), <<SEMI>>,
     Dec(g), <<SEMI>>, Dec(r), <<LOWER_M>> >>

\* Mutant of fmt_truecolor: the components with no ';' between them.
fmt_truecolor_unseparated(r, g, b) ==
  << <<ESC, LBRACKET, D(3), D(8), SEMI, D(2), SEMI>>, Dec(r), Dec(g), Dec(b),
     <<LOWER_M>> >>

\* format_args!("\x1b[38;2;{r};{g};{b}m")
fmt_truecolor(r, g, b) ==
  << <<ESC, LBRACKET, D(3), D(8), SEMI, D(2), SEMI>>, Dec(r), <<SEMI>>,
     Dec(g), <<SEMI>>, Dec(b), <<LOWER_M>> >>

\* Mutant of fmt_color_256_bg: the foreground's 38 left in place.
fmt_color_256_bg_as_fg(n) ==
  << <<ESC, LBRACKET, D(3), D(8), SEMI, D(5), SEMI>>, Dec(n), <<LOWER_M>> >>

\* format_args!("\x1b[48;5;{n}m")
fmt_color_256_bg(n) ==
  << <<ESC, LBRACKET, D(4), D(8), SEMI, D(5), SEMI>>, Dec(n), <<LOWER_M>> >>

\* format_args!("\x1b[48;2;{r};{g};{b}m")
fmt_truecolor_bg(r, g, b) ==
  << <<ESC, LBRACKET, D(4), D(8), SEMI, D(2), SEMI>>, Dec(r), <<SEMI>>,
     Dec(g), <<SEMI>>, Dec(b), <<LOWER_M>> >>

RECURSIVE Concat(_)
Concat(ps) == IF ps = <<>> THEN <<>> ELSE Head(ps) \o Concat(Tail(ps))

\* The four functions as functions of their arguments: the String that
\* format! returns when the call runs from start to end on its own.
color_256(n) == Concat(fmt_color_256(n))
truecolor(r, g, b) == Concat(fmt_truecolor(r, g, b))
color_256_bg(n) == Concat(fmt_color_256_bg(n))
truecolor_bg(r, g, b) == Concat(fmt_truecolor_bg(r, g, b))

PaletteFns == {"color_256", "color_256_bg"}
TruecolorFns == {"truecolor", "truecolor_bg"}
FnNames == PaletteFns \cup TruecolorFns

\* A call is [op, args]: op names the function called (or the constant read),
\* args are the u8 arguments.
NoCall == [op |-> "none", args |-> <<>>]

\* the pieces the call k appends to its String
Pieces(k) ==
  CASE k.op = "color_256"    -> fmt_color_256(k.args[1])
    [] k.op = "truecolor"    -> fmt_truecolor(k.args[1], k.args[2], k.args[3])
    [] k.op = "color_256_bg" -> fmt_color_256_bg(k.args[1])
    [] k.op = "truecolor_bg" -> fmt_truecolor_bg(k.args[1], k.args[2], k.args[3])

\* the value of the call k run on its own
Apply(k) ==
  CASE k.op = "color_256"    -> color_256(k.args[1])
    [] k.op = "truecolor"    -> truecolor(k.args[1], k.args[2], k.args[3])
    [] k.op = "color_256_bg" -> color_256_bg(k.args[1])
    [] k.op = "truecolor_bg" -> truecolor_bg(k.args[1], k.args[2], k.args[3])

\* --------------------------------------------------------------- bounds

\* the number of callers that may be inside a call at once
NumCallers == 2

Callers == 1..NumCallers

\* ---------------------------------------------------------------- state

VARIABLES
  pc,       \* pc[c]: "idle", "fmt" (inside format!), "done" (holds a result)
  call,     \* call[c]: the call c makes or made last
  buf,      \* buf[s]: the String under construction in allocation s
  pos,      \* pos[c]: the index of the next piece c's call appends
  ret,      \* ret[c]: the string c received from its last call or read
  statics   \* the program's read-only data: the constants by name

vars == <<pc, call, buf, pos, ret, statics>>

Init ==
  /\ pc = [c \in Callers |-> "idle"]
  /\ call = [c \in Callers |-> NoCall]
  /\ buf = [c \in Callers |-> <<>>]
  /\ pos = [c \in Callers |-> 0]
  /\ ret = [c \in Callers |-> <<>>]
  /\ statics = ConstTable

\* Mutant of BufOf: one buffer shared by every call.
SharedBuf(c) == 1

\* Mutant of NewString: the buffer of the caller's previous result, handed out
\* again without being cleared.
StaleString(c) == ret[c]

\* The String a call builds is an allocation of its own: the call of caller c
\* writes to no String but its own.
BufOf(c) == c

\* format! starts from String::new(): empty, whatever was built before.
NewString(c) == <<>>

\* Caller c enters the function k.op with the arguments k.args: format!
\* allocates the String it will return.
Call(c, k) ==
  /\ pc[c] \in {"idle", "done"}
  /\ pc' = [pc EXCEPT ![c] = "fmt"]
  /\ call' = [call EXCEPT ![c] = k]
  /\ buf' = [buf EXCEPT ![BufOf(c)] = NewString(c)]
  /\ pos' = [pos EXCEPT ![c] = 1]
  /\ ret' = [ret EXCEPT ![c] = <<>>]
  /\ UNCHANGED statics

\* format! appends the next piece (a literal of the format string or a
\* rendered argument) to the String.
WritePiece(c) ==
  /\ pc[c] = "fmt"
  /\ pos[c] <= Len(Pieces(call[c]))
  /\ buf' = [buf EXCEPT ![BufOf(c)] = @ \o Pieces(call[c])[pos[c]]]
  /\ pos' = [pos EXCEPT ![c] = @ + 1]
  /\ UNCHANGED <<pc, call, ret, statics>>

\* All pieces are written: the String is moved to the caller.
Return(c) ==
  /\ pc[c] = "fmt"
  /\ pos[c] > Len(Pieces(call[c]))
  /\ ret' = [ret EXCEPT ![c] = buf[BufOf(c)]]
  /\ buf' = [buf EXCEPT ![BufOf(c)] = <<>>]
  /\ pos' = [pos EXCEPT ![c] = 0]
  /\ pc' = [pc EXCEPT ![c] = "done"]
  /\ UNCHANGED <<call, statics>>

\* Caller c reads the named constant.
ReadConst(c, name) ==
  /\ pc[c] \in {"idle", "done"}
  /\ call' = [call EXCEPT ![c] = [op |-> name, args |-> <<>>]]
  /\ ret' = [ret EXCEPT ![c] = statics[name]]
  /\ pc' = [pc EXCEPT ![c] = "done"]
  /\ UNCHANGED <<buf, pos, statics>>

\* ------------------------------------------------------------- inputs

PaletteCalls(ns) == [op : PaletteFns, args : {<<n>> : n \in ns}]
TruecolorCalls(ts) == [op : TruecolorFns, args : ts]

\* Spec: every caller, a few calls of each function and three constants.
SmallCalls ==
  PaletteCalls({0, 7, 232}) \cup TruecolorCalls({<<0, 255, 255>>})
SmallConsts == {"RESET", "DOUBLE_UNDERLINE", "NOT_BOLD"}

\* PairSpec: two callers; arguments of every length and the ones whose digits
\* run together when the separators are dropped.
PairCalls ==
  PaletteCalls({0, 1, 2, 5, 9, 10, 12, 99, 100, 123, 232, 255})
    \cup TruecolorCalls({<<1, 23, 4>>, <<12, 3, 4>>, <<1, 2, 34>>, <<123, 4, 0>>,
                         <<5, 1, 2>>, <<2, 5, 5>>, <<0, 255, 255>>,
                         <<127, 45, 68>>, <<0, 0, 0>>})

\* FullSpec: one caller; the whole domain of the palette functions, and of the
\* truecolor functions every triple in which one component runs over the whole
\* of u8 while the other two are of one, two or three digits, and the triples
\* of the documentation.
Fixed == {0, 10, U8_MAX}
AxisTriples ==
  {<<r, g, b>> : r \in U8, g \in Fixed, b \in Fixed}
    \cup {<<r, g, b>> : r \in Fixed, g \in U8, b \in Fixed}
    \cup {<<r, g, b>> : r \in Fixed, g \in Fixed, b \in U8}
FullCalls ==
  PaletteCalls(U8)
    \cup TruecolorCalls(AxisTriples \cup {<<127, 45, 68>>, <<1, 23, 4>>, <<12, 3, 4>>})

\* ------------------------------------------------------ specifications

Next ==
  \E c \in Callers :
    \/ \E k \in SmallCalls : Call(c, k)
    \/ WritePiece(c)
    \/ Return(c)
    \/ \E name \in SmallConsts : ReadConst(c, name)

Spec == Init /\ [][Next]_vars

\* Two callers, each making one call or one read: every pair of results.
PairNext ==
  \E c \in {1, 2} :
    \/ pc[c] = "idle" /\ \E k \in PairCalls : Call(c, k)
    \/ WritePiece(c)
    \/ Return(c)
    \/ pc[c] = "idle" /\ \E name \in ConstNames : ReadConst(c, name)

PairSpec == Init /\ [][PairNext]_vars

\* One caller making one call or one read: every result on its own.
FullNext ==
  \/ pc[1] = "idle" /\ \E k \in FullCalls : Call(1, k)
  \/ WritePiece(1)
  \/ Return(1)
  \/ pc[1] = "idle" /\ \E name \in ConstNames : ReadConst(1, name)

FullSpec == Init /\ [][FullNext]_vars

\* ------------------------------------------- vocabulary of the properties

\* What a string must look like, stated by reading the string back: nothing
\* below uses Dec or the fmt_ definitions.

IsDigit(x) == x \in ZERO..(ZERO + 9)

\* the number a sequence of digit bytes denotes
RECURSIVE Value(_)
Value(ds) ==
  IF ds = <<>> THEN 0
  ELSE 10 * Value(SubSeq(ds, 1, Len(ds) - 1)) + (ds[Len(ds)] - ZERO)

\* ds is the decimal rendering of n: digits only, at least one, no leading zero
Decimal(ds, n) ==
  /\ Len(ds) >= 1
  /\ \A i \in 1..Len(ds) : IsDigit(ds[i])
  /\ Len(ds) > 1 => ds[1] # ZERO
  /\ Value(ds) = n

\* s begins with ESC '[' and ends with 'm'
Framed(s) ==
  /\ Len(s) >= 3
  /\ s[1] = ESC
  /\ s[2] = LBRACKET
  /\ s[Len(s)] = LOWER_M

\* what lies between ESC '[' and the final byte
Body(s) == SubSeq(s, 3, Len(s) - 1)

\* the fields of a byte sequence: its parts between the ';'
RECURSIVE Split(_)
Split(bs) ==
  IF \A i \in 1..Len(bs) : bs[i] # SEMI THEN <<bs>>
  ELSE LET i == CHOOSE j \in 1..Len(bs) :
                  bs[j] = SEMI /\ \A h \in 1..(j - 1) : bs[h] # SEMI
       IN <<SubSeq(bs, 1, i - 1)>> \o Split(SubSeq(bs, i + 1, Len(bs)))

\* s is exactly ESC '[' p1 ';' p2 ';' ... 'm', each p in decimal
Encodes(s, params) ==
  /\ Framed(s)
  /\ LET fs == Split(Body(s))
     IN /\ Len(fs) = Len(params)
        /\ \A i \in 1..Len(fs) : Decimal(fs[i], params[i])

\* how often the byte x occurs in s
Count(s, x) == Cardinality({i \in 1..Len(s) : s[i] = x})

\* the single parameter of a constant's sequence
Param(s) == Value(Body(s))

Returned(c, op) == pc[c] = "done" /\ call[c].op = op

\* ------------------------------------------------------------ claims

\* C1: for every n in 0..255, color_256(n) returns exactly ESC '[' "38;5;" <n>
\* 'm' with <n> in decimal, no leading zeros, no sign, no separators; n = 0, 7,
\* 232 and 255 give "\x1b[38;5;0m", "\x1b[38;5;7m", "\x1b[38;5;232m" and
\* "\x1b[38;5;255m".
C1_Color256Exact ==
  \A c \in Callers :
    Returned(c, "color_256") =>
      LET n == call[c].args[1]
      IN /\ Encodes(ret[c], <<38, 5, n>>)
         /\ n = 0 => ret[c] = <<27, 91, 51, 56, 59, 53, 59, 48, 109>>
         /\ n = 7 => ret[c] = <<27, 91, 51, 56, 59, 53, 59, 55, 109>>
         /\ n = 232 => ret[c] = <<27, 91, 51, 56, 59, 53, 59, 50, 51, 50, 109>>
         /\ n = 255 => ret[c] = <<27, 91, 51, 56, 59, 53, 59, 50, 53, 53, 109>>

C1_Witness ==
  /\ Returned(1, "color_256")
  /\ call[1].args = <<232>>
  /\ ret[1] = <<27, 91, 51, 56, 59, 53, 59, 50, 51, 50, 109>>

\* C2: for every n in 0..255, color_256_bg(n) returns exactly ESC '[' "48;5;"
\* <n> 'm': the string of color_256(n) with the 38 replaced by 48 and nothing
\* else changed.
C2_Color256BgExact ==
  \A c \in Callers :
    Returned(c, "color_256_bg") =>
      LET n == call[c].args[1]
      IN /\ Encodes(ret[c], <<48, 5, n>>)
         /\ ret[c] = [color_256(n) EXCEPT ![3] = D(4)]

C2_Witness ==
  /\ Returned(1, "color_256_bg")
  /\ call[1].args = <<214>>
  /\ ret[1] = <<27, 91, 52, 56, 59, 53, 59, 50, 49, 52, 109>>

\* C3: truecolor(r,g,b) returns exactly ESC '[' "38;2;" <r> ';' <g> ';' <b> 'm'
\* and truecolor_bg(r,g,b) the same with 48, the components in the order r, g,
\* b and in decimal; truecolor_bg(0,255,255) is "\x1b[48;2;0;255;255m".
C3_TruecolorExact ==
  \A c \in Callers :
    LET a == call[c].args
    IN /\ Returned(c, "truecolor") =>
            Encodes(ret[c], <<38, 2, a[1], a[2], a[3]>>)
       /\ Returned(c, "truecolor_bg") =>
            /\ Encodes(ret[c], <<48, 2, a[1], a[2], a[3]>>)
            /\ a = <<0, 255, 255>> =>
                 ret[c] = <<27, 91, 52, 56, 59, 50, 59, 48, 59, 50, 53, 53, 59,
                            50, 53, 53, 109>>

C3_Witness ==
  /\ Returned(1, "truecolor")
  /\ call[1].args = <<127, 45, 68>>
  /\ ret[1] = <<27, 91, 51, 56, 59, 50, 59, 49, 50, 55, 59, 52, 53, 59, 54, 56,
                109>>

\* C4: every named constant is a non-empty string that begins with ESC '[',
\* ends with 'm', and holds between them exactly one parameter: ASCII digits
\* only, no ';', and no leading zero but for the single digit 0 of RESET.
C4_ConstantsWellFormed ==
  \A c \in Callers :
    (pc[c] = "done" /\ call[c].op \in ConstNames) =>
      /\ Framed(ret[c])
      /\ LET b == Body(ret[c])
         IN /\ Len(b) >= 1
            /\ \A i \in 1..Len(b) : IsDigit(b[i])
            /\ b[1] = ZERO => (Len(b) = 1 /\ call[c].op = "RESET")

C4_Witness ==
  /\ Returned(1, "BRIGHT_WHITE_BG")
  /\ ret[1] = <<27, 91, 49, 48, 55, 109>>

\* C5: the only two distinct constant names bound to the same string are
\* DOUBLE_UNDERLINE and NOT_BOLD, both "\x1b[21m"; every other pair of distinct
\* names is bound to different strings.
C5_OnlyOneSharedValue ==
  \A c1, c2 \in Callers :
    (/\ pc[c1] = "done" /\ call[c1].op \in ConstNames
     /\ pc[c2] = "done" /\ call[c2].op \in ConstNames
     /\ call[c1].op # call[c2].op) =>
      IF {call[c1].op, call[c2].op} = {"DOUBLE_UNDERLINE", "NOT_BOLD"}
      THEN ret[c1] = <<27, 91, 50, 49, 109>> /\ ret[c2] = <<27, 91, 50, 49, 109>>
      ELSE ret[c1] # ret[c2]

C5_Witness ==
  /\ Returned(1, "DOUBLE_UNDERLINE")
  /\ Returned(2, "NOT_BOLD")
  /\ ret[1] = ret[2]

\* the colours in the order of the SGR numbering, under their four names
FgNames ==
  <<"BLACK", "RED", "GREEN", "YELLOW", "BLUE", "MAGENTA", "CYAN", "WHITE">>
BgNames ==
  <<"BLACK_BG", "RED_BG", "GREEN_BG", "YELLOW_BG", "BLUE_BG", "MAGENTA_BG",
    "CYAN_BG", "WHITE_BG">>
BrightNames ==
  <<"BRIGHT_BLACK", "BRIGHT_RED", "BRIGHT_GREEN", "BRIGHT_YELLOW",
    "BRIGHT_BLUE", "BRIGHT_MAGENTA", "BRIGHT_CYAN", "BRIGHT_WHITE">>
BrightBgNames ==
  <<"BRIGHT_BLACK_BG", "BRIGHT_RED_BG", "BRIGHT_GREEN_BG", "BRIGHT_YELLOW_BG",
    "BRIGHT_BLUE_BG", "BRIGHT_MAGENTA_BG", "BRIGHT_CYAN_BG", "BRIGHT_WHITE_BG">>

\* C6: in the order black, red, green, yellow, blue, magenta, cyan, white the
\* foreground constants have the parameters 30..37, the _BG constants 40..47,
\* the BRIGHT_ constants 90..97 and the BRIGHT_ _BG constants 100..107; DEFAULT
\* is 39 and DEFAULT_BG 49; so param(X_BG) = param(X) + 10 and param(BRIGHT_X) =
\* param(X) + 60; RESET is "\x1b[0m", BOLD "\x1b[1m", BRIGHT_CYAN_BG "\x1b[106m".
C6_ColourNumbering ==
  /\ \A c \in Callers : \A i \in 1..8 :
       /\ Returned(c, FgNames[i]) => Encodes(ret[c], <<29 + i>>)
       /\ Returned(c, BgNames[i]) => Encodes(ret[c], <<39 + i>>)
       /\ Returned(c, BrightNames[i]) => Encodes(ret[c], <<89 + i>>)
       /\ Returned(c, BrightBgNames[i]) => Encodes(ret[c], <<99 + i>>)
  /\ \A c \in Callers :
       /\ Returned(c, "DEFAULT") => Encodes(ret[c], <<39>>)
       /\ Returned(c, "DEFAULT_BG") => Encodes(ret[c], <<49>>)
       /\ Returned(c, "RESET") => ret[c] = <<27, 91, 48, 109>>
       /\ Returned(c, "BOLD") => ret[c] = <<27, 91, 49, 109>>
       /\ Returned(c, "BRIGHT_CYAN_BG") => ret[c] = <<27, 91, 49, 48, 54, 109>>
  /\ \A c1, c2 \in Callers : \A i \in 1..8 :
       Returned(c1, FgNames[i]) =>
         /\ Returned(c2, BgNames[i]) => Param(ret[c2]) = Param(ret[c1]) + 10
         /\ Returned(c2, BrightNames[i]) => Param(ret[c2]) = Param(ret[c1]) + 60

C6_Witness ==
  /\ Returned(1, "MAGENTA")
  /\ Returned(2, "MAGENTA_BG")
  /\ Param(ret[1]) = 35
  /\ Param(ret[2]) = 45

\* C7: for every input in its u8 domain each of the four functions returns a
\* string, with no error outcome, that is one complete sequence ESC '['
\* digits (';' digits)* 'm': ESC exactly once and first, 'm' exactly once and
\* last, exactly 3 fields for the palette functions and 5 for the truecolor
\* functions, no field empty.
C7_WellFormedAndTotal ==
  \A c \in Callers :
    /\ pc[c] \in {"idle", "fmt", "done"}
    /\ pc[c] = "fmt" => ENABLED (WritePiece(c) \/ Return(c))
    /\ (pc[c] = "done" /\ call[c].op \in FnNames) =>
         LET s == ret[c]
             fs == Split(Body(s))
         IN /\ Framed(s)
            /\ Count(s, ESC) = 1
            /\ Count(s, LOWER_M) = 1
            /\ Len(fs) = (IF call[c].op \in PaletteFns THEN 3 ELSE 5)
            /\ \A i \in 1..Len(fs) :
                 /\ Len(fs[i]) >= 1
                 /\ \A j \in 1..Len(fs[i]) : IsDigit(fs[i][j])

C7_Witness ==
  /\ Returned(1, "truecolor")
  /\ call[1].args = <<0, 0, 0>>
  /\ Len(Split(Body(ret[1]))) = 5
  /\ Len(ret[1]) = 13

\* C8: a call's result depends only on its own arguments: two calls of the
\* same function with the same arguments return the same string whatever
\* calls happened in between, and no call changes state (the named constants
\* included) that a later call or a later read of a constant can observe.
C8_NoHiddenState ==
  /\ \A c1, c2 \in Callers :
       (pc[c1] = "done" /\ pc[c2] = "done" /\ call[c1] = call[c2]) =>
         ret[c1] = ret[c2]
  /\ statics = ConstTable

C8_Witness ==
  /\ Returned(1, "color_256")
  /\ Returned(2, "color_256")
  /\ call[1].args = <<232>>
  /\ call[2].args = <<232>>
  /\ ret[1] = ret[2]
  /\ Len(ret[1]) = 11

\* C9: when callers run calls of the four functions and reads of the
\* constants concurrently, in every interleaving each caller receives exactly
\* the string it would receive running alone.
C9_InterleavingFree ==
  \A c \in Callers :
    pc[c] = "done" =>
      /\ call[c].op \in FnNames => ret[c] = Apply(call[c])
      /\ call[c].op \in ConstNames => ret[c] = ConstTable[call[c].op]

C9_Witness ==
  /\ Returned(1, "truecolor_bg")
  /\ ret[1] = Apply(call[1])
  /\ pc[2] = "fmt"
  /\ call[2].op = "truecolor_bg"
  /\ pos[2] = 4

\* C10: each of the four functions is injective ((1,23,4) and (12,3,4) give
\* different strings), the output sets of the four functions are pairwise
\* disjoint, and no function output equals a named constant.
C10_Unambiguous ==
  \A c1, c2 \in Callers :
    (/\ pc[c1] = "done" /\ call[c1].op \in FnNames
     /\ pc[c2] = "done"
     /\ call[c1] # call[c2]) =>
      ret[c1] # ret[c2]

C10_Witness ==
  /\ Returned(1, "truecolor")
  /\ Returned(2, "truecolor")
  /\ call[1].args = <<1, 23, 4>>
  /\ call[2].args = <<12, 3, 4>>
  /\ ret[1] # ret[2]

====
